---- MODULE Spec2Model ----
(***************************************************************************)
(* gtags-mcp: a request/response bridge between an agent and GNU GLOBAL.   *)
(* src/lib/server.js holds two servers:                                    *)
(*   - the TCP server (lines 676-854): line-delimited {id, command,        *)
(*     params} requests answered by {id, status, payload | error}, with a  *)
(*     periodic `gtags -i` refresh started from main();                    *)
(*   - class GtagsMCPServer (lines 7-673): JSON-RPC over stdio with a      *)
(*     periodic `global -u` refresh guarded by isUpdating.                 *)
(* JavaScript text is modelled as a sequence of one-character strings      *)
(* where the code inspects it character by character (tool stdout), as a   *)
(* sequence of words where it only searches it (tool stderr) and as a TLA+ *)
(* string where it only copies it (ids, commands, messages).               *)
(***************************************************************************)
EXTENDS Integers, Sequences, FiniteSets, TLC

(***************************************************************************)
(* Bounds of the model.                                                    *)
(***************************************************************************)
MaxLines == 2        \* lines received on one connection
MaxTicks == 2        \* firings of the refresh timer
MaxChunks == 2       \* 'data' events on stdin
MaxLinesMulti == 1   \* lines received on one connection when two clients connect
MaxOutLines == 3     \* lines of a tool output handed to the parser
MaxText == 4         \* characters of an input stream cut into reads

(***************************************************************************)
(* JavaScript values that are not strings.                                 *)
(***************************************************************************)
Undefined == "<undefined>"
Null == "<null>"
Absent == "<absent>"      \* a key JSON.stringify left out of the output

\* ToBoolean of a JSON value (the `!request.id` tests)
Truthy(v) == v \notin {Undefined, Null, "", "<0>", "<false>"}

\* JSON.stringify of one property: keys whose value is undefined are dropped
Stringify(v) == IF v = Undefined THEN Absent ELSE v

(***************************************************************************)
(* Text helpers: String.prototype.trim, split('\n'), includes.             *)
(***************************************************************************)
WhiteSpace == {" ", "\t", "\n", "\r"}
Digits == {"0", "1", "2", "3", "4", "5", "6", "7", "8", "9"}

RECURSIVE TrimStart(_)
TrimStart(s) ==
    IF s # <<>> /\ Head(s) \in WhiteSpace THEN TrimStart(Tail(s)) ELSE s

RECURSIVE TrimEnd(_)
TrimEnd(s) ==
    IF s # <<>> /\ s[Len(s)] \in WhiteSpace
    THEN TrimEnd(SubSeq(s, 1, Len(s) - 1)) ELSE s

Trim(s) == TrimEnd(TrimStart(s))

\* s.split('\n'): always at least one piece ('' splits into [''])
RECURSIVE SplitLines(_, _)
SplitLines(s, cur) ==
    IF s = <<>> THEN <<cur>>
    ELSE IF Head(s) = "\n" THEN <<cur>> \o SplitLines(Tail(s), <<>>)
    ELSE SplitLines(Tail(s), Append(cur, Head(s)))

Split(s) == SplitLines(s, <<>>)

\* s.includes(t) on a sequence
Includes(s, t) ==
    \E i \in 1..(Len(s) - Len(t) + 1) : SubSeq(s, i, i + Len(t) - 1) = t

(***************************************************************************)
(* parseLocationOutput (server.js 757-764).                                *)
(***************************************************************************)
\* length of the longest prefix of s made of characters in / not in set
RECURSIVE RunIn(_, _)
RunIn(s, set) ==
    IF s # <<>> /\ Head(s) \in set THEN 1 + RunIn(Tail(s), set) ELSE 0

RECURSIVE RunNotIn(_, _)
RunNotIn(s, set) ==
    IF s # <<>> /\ Head(s) \notin set THEN 1 + RunNotIn(Tail(s), set) ELSE 0

Drop(s, n) == SubSeq(s, n + 1, Len(s))
Take(s, n) == SubSeq(s, 1, n)

DigitVal(c) ==
    CASE c = "0" -> 0 [] c = "1" -> 1 [] c = "2" -> 2 [] c = "3" -> 3
      [] c = "4" -> 4 [] c = "5" -> 5 [] c = "6" -> 6 [] c = "7" -> 7
      [] c = "8" -> 8 [] c = "9" -> 9

\* parseInt(digits, 10) on a string of decimal digits
RECURSIVE ParseInt(_, _)
ParseInt(s, acc) ==
    IF s = <<>> THEN acc ELSE ParseInt(Tail(s), 10 * acc + DigitVal(Head(s)))

NoMatch == [ok |-> FALSE, symbol |-> <<>>, line |-> 0, file |-> <<>>, code |-> <<>>]

\* line.match(/^(\S+)\s+(\d+)\s+([^\s]+)\s+(.*)$/): every quantifier is
\* greedy and is followed by a class disjoint from its own, so each group
\* is a maximal run; `.` does not match a line terminator.
MatchLine(line) ==
    LET n1 == RunNotIn(line, WhiteSpace)
        r1 == Drop(line, n1)
        w1 == RunIn(r1, WhiteSpace)
        r2 == Drop(r1, w1)
        n2 == RunIn(r2, Digits)
        r3 == Drop(r2, n2)
        w2 == RunIn(r3, WhiteSpace)
        r4 == Drop(r3, w2)
        n3 == RunNotIn(r4, WhiteSpace)
        r5 == Drop(r4, n3)
        w3 == RunIn(r5, WhiteSpace)
        r6 == Drop(r5, w3)
    IN  IF n1 >= 1 /\ w1 >= 1 /\ n2 >= 1 /\ w2 >= 1 /\ n3 >= 1 /\ w3 >= 1
           /\ \A i \in 1..Len(r6) : r6[i] \notin {"\n", "\r"}
        THEN [ok |-> TRUE, symbol |-> Take(line, n1),
              line |-> ParseInt(Take(r2, n2), 0),
              file |-> Take(r4, n3), code |-> Trim(r6)]
        ELSE NoMatch

IsMatch(m) == m.ok

\* Record with the third and fourth groups exchanged
Record_FileLast(m) == [symbol |-> m.symbol, line |-> m.line, file |-> m.code, code |-> m.file]

Record(m) == [symbol |-> m.symbol, line |-> m.line, file |-> m.file, code |-> m.code]

RECURSIVE MapMatch(_)
MapMatch(ls) ==
    IF ls = <<>> THEN <<>> ELSE <<MatchLine(Head(ls))>> \o MapMatch(Tail(ls))

RECURSIVE MapRecord(_)
MapRecord(ms) ==
    IF ms = <<>> THEN <<>> ELSE <<Record(Head(ms))>> \o MapRecord(Tail(ms))

parseLocationOutput(output) ==
    IF output = <<>> THEN <<>>
    ELSE MapRecord(SelectSeq(MapMatch(Split(Trim(output))), IsMatch))

\* out.trim().split('\n').filter(Boolean)  (server.js 776)
NonEmpty(l) == l # <<>>
\* SymbolList without the filter
SymbolList_KeepBlank(out) == Split(Trim(out))

SymbolList(out) == SelectSeq(Split(Trim(out)), NonEmpty)

(***************************************************************************)
(* Input lines of the TCP protocol.  A line is kept as the JSON value it   *)
(* holds (kind "text": no JSON at all); a key that is missing reads as     *)
(* undefined, as a property read in JavaScript does.                       *)
(***************************************************************************)
Obj(id, command, params, symbol, prefix, pattern) ==
    [kind |-> "object", id |-> id, command |-> command, params |-> params,
     symbol |-> symbol, prefix |-> prefix, pattern |-> pattern]

NonObj(kind) ==
    [kind |-> kind, id |-> Undefined, command |-> Undefined, params |-> Undefined,
     symbol |-> Undefined, prefix |-> Undefined, pattern |-> Undefined]

LineGarbage == NonObj("text")          \* not JSON
LineNull == NonObj("null")             \* null
LineNumber == NonObj("number")         \* 5
LineNoCommand == Obj("7", Undefined, Undefined, Undefined, Undefined, Undefined)
LineNoId == Obj(Undefined, "get_definition", "object", "Foo", Undefined, Undefined)
LineBogus == Obj("3", "bogus", "object", Undefined, Undefined, Undefined)
LineDef == Obj("1", "get_definition", "object", "Foo", Undefined, Undefined)
LineRef == Obj("2", "get_references", "object", "Foo", Undefined, Undefined)
LineList == Obj("4", "list_symbols_with_prefix", "object", Undefined, "", Undefined)
LinePattern == Obj("5", "search_pattern", "object", Undefined, Undefined, "Fo+")
LineNoParams == Obj("6", "get_definition", Undefined, Undefined, Undefined, Undefined)

Lines == {LineGarbage, LineNull, LineNumber, LineNoCommand, LineNoId, LineBogus,
          LineDef, LineRef, LineList, LinePattern, LineNoParams}

(***************************************************************************)
(* rl.on('line') 794-803: JSON.parse and the id/command test.  A failure   *)
(* carries the message of the exception that was thrown.                   *)
(***************************************************************************)
DecodeLine(line) ==
    IF line.kind = "text"
    THEN [ok |-> FALSE, details |-> "Unexpected token in JSON"]
    ELSE IF line.kind = "null"
    THEN [ok |-> FALSE, details |-> "Cannot read properties of null (reading 'id')"]
    ELSE IF ~Truthy(line.id) \/ ~Truthy(line.command)
    THEN [ok |-> FALSE, details |-> "Request must include 'id' and 'command' fields."]
    ELSE [ok |-> TRUE, details |-> ""]

(***************************************************************************)
(* processRequest 768-780, up to its first suspension: either a `global`   *)
(* command line is handed to exec, or an exception is thrown.              *)
(***************************************************************************)
\* one element of args.join(' '): undefined joins as the empty string
JoinArg(v) == IF v = Undefined THEN "" ELSE v

Spawn(flag, arg, post) ==
    [kind |-> "spawn", cmdline |-> "global " \o flag \o " " \o JoinArg(arg),
     post |-> post, message |-> ""]

Throw(message) ==
    [kind |-> "throw", cmdline |-> "", post |-> "none", message |-> message]

ParamsTypeError(key) ==
    Throw("Cannot read properties of undefined (reading '" \o key \o "')")

\* processRequest without its default branch: an unlisted command falls
\* into the definition lookup
processRequest_NoDefault(request) ==
    CASE request.command = "get_references" ->
            IF request.params = Undefined THEN ParamsTypeError("symbol")
            ELSE Spawn("-xr", request.symbol, "locations")
      [] request.command = "list_symbols_with_prefix" ->
            IF request.params = Undefined THEN ParamsTypeError("prefix")
            ELSE Spawn("-c", request.prefix, "symbols")
      [] OTHER ->
            IF request.params = Undefined THEN ParamsTypeError("symbol")
            ELSE Spawn("-x", request.symbol, "locations")

processRequest(request) ==
    CASE request.command = "get_definition" ->
            IF request.params = Undefined THEN ParamsTypeError("symbol")
            ELSE Spawn("-x", request.symbol, "locations")
      [] request.command = "get_references" ->
            IF request.params = Undefined THEN ParamsTypeError("symbol")
            ELSE Spawn("-xr", request.symbol, "locations")
      [] request.command = "list_symbols_with_prefix" ->
            IF request.params = Undefined THEN ParamsTypeError("prefix")
            ELSE Spawn("-c", request.prefix, "symbols")
      [] OTHER -> Throw("Unknown command: " \o request.command)

(***************************************************************************)
(* What a `global` subprocess can hand to the exec callback (750): the     *)
(* error flag (non-zero exit, spawn failure or signal), stdout and stderr. *)
(* cause records why the tool ended that way; the code never sees it.      *)
(***************************************************************************)
Outcome(cause, err, stdout, stderr) ==
    [cause |-> cause, err |-> err, stdout |-> stdout, stderr |-> stderr]

NoOutcome == Outcome("none", FALSE, <<>>, <<>>)

\* "Foo 10 src/a.txt void Foo() {\n"
StdoutFoo ==
    <<"F","o","o"," ","1","0"," ","s","r","c","/","a",".","t","x","t"," ",
      "v","o","i","d"," ","F","o","o","(",")"," ","{","\n">>

\* "Foo\nFoo2\n"
StdoutSymbols == <<"F","o","o","\n","F","o","o","2","\n">>

Found(post) ==
    Outcome("found", FALSE,
            IF post = "symbols" THEN StdoutSymbols ELSE StdoutFoo, <<>>)

\* "Foo 10 src/a.txt void Foo() {\nFoo   22 lib/b.c    int Foo = 1;\n":
\* two definitions, in the columns `global -x` aligns
StdoutFooTwice ==
    StdoutFoo \o
    <<"F","o","o"," "," "," ","2","2"," ","l","i","b","/","b",".","c"," "," "," "," ",
      "i","n","t"," ","F","o","o"," ","="," ","1",";","\n">>

\* "Foo2\n\nFoo\nFoo2\n": a name twice, names out of alphabetical order, and
\* a blank line
StdoutSymbolsDup ==
    <<"F","o","o","2","\n","\n","F","o","o","\n","F","o","o","2","\n">>

FoundTwice(post) ==
    Outcome("found", FALSE,
            IF post = "symbols" THEN StdoutSymbolsDup ELSE StdoutFooTwice, <<>>)

\* zero results: exit 0 with no output, or a non-zero exit reported on
\* stderr as "... not found"
ZeroExitOk == Outcome("zero", FALSE, <<>>, <<>>)
ZeroExitNonZero == Outcome("zero", TRUE, <<>>, <<"global:", "Foo", "not", "found">>)
\* the executable is missing: the shell exits 127 saying so
ToolMissing == Outcome("missing", TRUE, <<>>, <<"/bin/sh:", "1:", "global:", "not", "found">>)
BadArguments == Outcome("badargs", TRUE, <<>>, <<"Usage:", "global", "[-x]", "pattern">>)
Crash == Outcome("crash", TRUE, <<>>, <<>>)

ToolOutcomes(post) ==
    {Found(post), FoundTwice(post), ZeroExitOk, ZeroExitNonZero, ToolMissing,
     BadArguments, Crash}

\* executeGlobalCommand without the 'not found' test: every exec error
\* rejects
executeGlobalCommand_Strict(o) ==
    IF o.err
    THEN [settled |-> "rejected", stdout |-> <<>>]
    ELSE [settled |-> "resolved", stdout |-> o.stdout]

\* executeGlobalCommand 747-755: the exec callback settles the promise
executeGlobalCommand(o) ==
    IF o.err /\ ~Includes(o.stderr, <<"not", "found">>)
    THEN [settled |-> "rejected", stdout |-> <<>>]
    ELSE [settled |-> "resolved", stdout |-> o.stdout]

\* the .then(...) of processRequest 772-776
PostProcess(post, stdout) ==
    IF post = "symbols" THEN SymbolList(stdout) ELSE parseLocationOutput(stdout)

(***************************************************************************)
(* Responses, as JSON.stringify puts them on the socket.                   *)
(***************************************************************************)
Response(id, status, hasPayload, payload, hasError, message, details) ==
    [id |-> Stringify(id), status |-> status,
     hasPayload |-> hasPayload, payload |-> payload,
     hasError |-> hasError, message |-> Stringify(message),
     details |-> Stringify(details)]

\* line 801
InvalidResponse(details) ==
    Response(Null, "error", FALSE, <<>>, TRUE, "Invalid JSON request.", details)

\* line 808
SuccessResponse(id, payload) ==
    Response(id, "success", TRUE, payload, FALSE, Undefined, Undefined)

\* line 810, for a thrown Error: message and stack are strings
ThrownResponse(id, message) ==
    Response(id, "error", FALSE, <<>>, TRUE, message, "Error: " \o message)

\* line 810 writing `error: error.message`: for a rejection without a
\* message the error key itself would be dropped
RejectedResponse_NoError(id) ==
    Response(id, "error", FALSE, <<>>, FALSE, Undefined, Undefined)

\* line 810, for the plain object {error, stderr} that executeGlobalCommand
\* rejects with: it has no message and no stack property
RejectedResponse(id) ==
    Response(id, "error", FALSE, <<>>, TRUE, Undefined, Undefined)

NoResponse == Response(Null, "none", FALSE, <<>>, FALSE, Undefined, Undefined)

(***************************************************************************)
(* State.                                                                  *)
(***************************************************************************)
VARIABLES
    \* TCP server, per connection
    nlines,       \* number of 'line' events handled so far
    lastLine,     \* the line of the latest 'line' event
    inflight,     \* handlers suspended at `await processRequest(request)`
    order,        \* line numbers in the order their responses were written
    last,         \* the latest response written, with the line it answers
    conn,         \* "none", "open", or "ended" (end of stream or socket error)
    \* TCP server, process wide
    phase,        \* "init", "startup" (first update awaited), "scheduled", "exited"
    updRunning,   \* `gtags -i` subprocesses in flight
    ticks,        \* timer firings so far
    log,          \* the latest entry on the side channel (stderr)
    closing,      \* SIGINT or SIGTERM was received: server.close() is pending
    \* GtagsMCPServer (stdio)
    isUpdating,   \* this.isUpdating
    sUpdRunning,  \* `global -u` subprocesses in flight
    sTicks,       \* timer firings so far, counted up to MaxTicks
    sChunks,      \* 'data' events so far
    sLines,       \* lines handled so far
    sBad,         \* numbers of the lines that held no JSON object
    sPending,     \* handleMessage calls suspended at an await
    sOrder,       \* line numbers in the order their responses were written
    sLast,        \* the latest message written to stdout
    crashed,      \* the process died of an unhandled rejection
    sBoot,        \* ensureGtagsDatabase: "none", "done" or "failed" (latest run)
    sEnded,       \* stdin reached end of stream
    sLog,         \* the latest entry on stderr
    sUpdResult,   \* how the latest `global -u` ended: "none", "ok", "failed"
    \* ---- a pure function of the module applied to an input
    pFn,          \* the function applied last: "none" before any
    pIn,          \* its input, in a record
    pOut          \* its result, in a record

connVars == <<nlines, lastLine, inflight, order, last, conn>>
schedVars == <<phase, updRunning, ticks, closing>>
tcpVars == <<nlines, lastLine, inflight, order, last, conn, phase, updRunning, ticks,
             log, closing>>
stdioVars == <<isUpdating, sUpdRunning, sTicks, sChunks, sLines, sBad, sPending,
               sOrder, sLast, crashed, sBoot, sEnded, sLog, sUpdResult>>
pureVars == <<pFn, pIn, pOut>>
vars == <<nlines, lastLine, inflight, order, last, conn, phase, updRunning, ticks,
          log, closing,
          isUpdating, sUpdRunning, sTicks, sChunks, sLines, sBad, sPending,
          sOrder, sLast, crashed, sBoot, sEnded, sLog, sUpdResult,
          pFn, pIn, pOut>>

AllConns == {1, 2}     \* sockets the server may be handed
Conns == {1}           \* sockets that connect under Spec

Written(idx, src, tool, resp) ==
    [line |-> idx, src |-> src, tool |-> tool, resp |-> resp]

NothingWritten == Written(0, LineGarbage, NoOutcome, NoResponse)

InitTcp ==
    /\ nlines = [c \in AllConns |-> 0]
    /\ lastLine = [c \in AllConns |-> LineGarbage]
    /\ inflight = [c \in AllConns |-> {}]
    /\ order = [c \in AllConns |-> <<>>]
    /\ last = [c \in AllConns |-> NothingWritten]
    /\ conn = [c \in AllConns |-> "none"]
    /\ phase = "init"
    /\ updRunning = 0
    /\ ticks = 0
    /\ log = "Initializing MCP TCP server..."
    /\ closing = FALSE

(***************************************************************************)
(* TCP server: the 'line' handler (793-812).                               *)
(***************************************************************************)
\* a handler whose awaited promise has already settled resumes in a
\* microtask: before any timer, subprocess or socket event is delivered
MicroPending(c) == \E it \in inflight[c] : it.wait = "micro"
NoMicrotask == \A c \in AllConns : ~MicroPending(c)

Listening == phase \in {"startup", "scheduled"}

Suspended(idx, src, p) ==
    [line |-> idx, src |-> src,
     wait |-> IF p.kind = "throw" THEN "micro" ELSE "proc",
     cmdline |-> p.cmdline, post |-> p.post, message |-> p.message]

\* the connection callback (784-791): the client is logged and a readline
\* interface is put on the socket; a closing server accepts nobody
Connect(c) ==
    /\ Listening /\ ~closing
    /\ NoMicrotask
    /\ conn[c] = "none"
    /\ conn' = [conn EXCEPT ![c] = "open"]
    /\ log' = "Client connected"
    /\ UNCHANGED <<nlines, lastLine, inflight, order, last, schedVars, stdioVars, pureVars>>

\* End tearing down every session, not only the one whose stream ended
End_All(c) ==
    /\ phase # "exited"
    /\ NoMicrotask
    /\ conn[c] = "open"
    /\ conn' = [d \in AllConns |-> IF conn[d] = "open" THEN "ended" ELSE conn[d]]
    /\ \E how \in {"Client disconnected", "Client socket error"} : log' = how
    /\ UNCHANGED <<nlines, lastLine, inflight, order, last, schedVars, stdioVars, pureVars>>

\* the client ends the stream, or the socket fails (814-820): the event is
\* logged; readline gets no more lines from this socket
End(c) ==
    /\ phase # "exited"
    /\ NoMicrotask
    /\ conn[c] = "open"
    /\ conn' = [conn EXCEPT ![c] = "ended"]
    /\ \E how \in {"Client disconnected", "Client socket error"} : log' = how
    /\ UNCHANGED <<nlines, lastLine, inflight, order, last, schedVars, stdioVars, pureVars>>

\* One 'line' event, up to the handler's return or its first await.
\* readline emits the lines of one chunk back to back, so the next line of
\* the same connection may arrive while microtasks of this one are pending.
Line(c, line) ==
    /\ Listening
    /\ conn[c] = "open"
    /\ nlines[c] < MaxLines
    /\ \A d \in AllConns \ {c} : ~MicroPending(d)
    /\ LET idx == nlines[c] + 1
           d == DecodeLine(line)
       IN  /\ nlines' = [nlines EXCEPT ![c] = idx]
           /\ lastLine' = [lastLine EXCEPT ![c] = line]
           /\ IF ~d.ok
              THEN /\ last' = [last EXCEPT ![c] =
                          Written(idx, line, NoOutcome, InvalidResponse(d.details))]
                   /\ order' = [order EXCEPT ![c] = Append(@, idx)]
                   /\ UNCHANGED <<inflight, log>>
              ELSE /\ log' = "Received command"
                   /\ inflight' = [inflight EXCEPT ![c] =
                          @ \cup {Suspended(idx, line, processRequest(line))}]
                   /\ UNCHANGED <<last, order>>
    /\ UNCHANGED <<conn, schedVars, stdioVars, pureVars>>

\* WriteReply through a socket shared by the connections: the reply goes to
\* the other client
WriteReply_Shared(c, w) ==
    LET d == CHOOSE e \in AllConns : e # c
    IN  /\ last' = [last EXCEPT ![d] = w]
        /\ order' = [order EXCEPT ![d] = Append(@, w.line)]
        /\ UNCHANGED log

\* clientSocket.write of a reply (808, 810).  On a socket that has ended the
\* write fails: nothing reaches the client, and the socket's 'error'
\* listener (818) may log the failure.
WriteReply(c, w) ==
    IF conn[c] = "open"
    THEN /\ last' = [last EXCEPT ![c] = w]
         /\ order' = [order EXCEPT ![c] = Append(@, w.line)]
         /\ UNCHANGED log
    ELSE /\ UNCHANGED <<last, order>>
         /\ log' \in {log, "Client socket error"}

\* processRequest threw: the catch at 809 writes the error response
Resume(c) ==
    /\ phase # "exited"
    /\ \E it \in inflight[c] :
        /\ it.wait = "micro"
        /\ \A o \in inflight[c] : o.wait = "micro" => it.line <= o.line
        /\ inflight' = [inflight EXCEPT ![c] = @ \ {it}]
        /\ WriteReply(c, Written(it.line, it.src, NoOutcome,
                                 ThrownResponse(it.src.id, it.message)))
    /\ UNCHANGED <<nlines, lastLine, conn, schedVars, stdioVars, pureVars>>

\* Reply answering from the state of the scheduler: nothing while a
\* refresh runs
Reply_DuringRefresh(it, o) ==
    LET r == executeGlobalCommand(o)
    IN  IF r.settled = "resolved"
        THEN SuccessResponse(it.src.id,
                 IF updRunning > 0 THEN <<>> ELSE PostProcess(it.post, r.stdout))
        ELSE RejectedResponse(it.src.id)

\* the reply written once the exec callback has settled the promise (807-810)
Reply(it, o) ==
    LET r == executeGlobalCommand(o)
    IN  IF r.settled = "resolved"
        THEN SuccessResponse(it.src.id, PostProcess(it.post, r.stdout))
        ELSE RejectedResponse(it.src.id)

\* a `global` subprocess ends with one of the given causes
ExecDoneOf(c, causes) ==
    /\ NoMicrotask
    /\ phase # "exited"
    /\ \E it \in inflight[c] :
        /\ it.wait = "proc"
        /\ \E o \in ToolOutcomes(it.post) :
            /\ o.cause \in causes
            /\ WriteReply(c, Written(it.line, it.src, o, Reply(it, o)))
        /\ inflight' = [inflight EXCEPT ![c] = @ \ {it}]
    /\ UNCHANGED <<nlines, lastLine, conn, schedVars, stdioVars, pureVars>>

Causes == {"found", "zero", "missing", "badargs", "crash"}

\* a `global` subprocess ends
ExecDone(c) == ExecDoneOf(c, Causes)

(***************************************************************************)
(* TCP server: main() and runGtagsUpdate (737-745, 823-849).               *)
(***************************************************************************)
\* the 'listening' callback (826-829) calls runGtagsUpdate, which logs and
\* starts `gtags -i`
Listen ==
    /\ phase = "init"
    /\ phase' = "startup"
    /\ updRunning' = updRunning + 1
    /\ log' = "Starting incremental index update"
    /\ UNCHANGED <<ticks, closing, connVars, stdioVars, pureVars>>

\* the port cannot be bound: server.on('error') exits (834-837)
ListenError ==
    /\ phase = "init"
    /\ phase' = "exited"
    /\ log' = "[FATAL] Server error"
    /\ UNCHANGED <<updRunning, ticks, closing, connVars, stdioVars, pureVars>>

\* a `gtags -i` subprocess ends; runGtagsUpdate logs the result (741-743).
\* The first one is awaited by the 'listening' callback, which then sets
\* the interval timer (831).
UpdateDone ==
    /\ NoMicrotask
    /\ Listening
    /\ updRunning > 0
    /\ updRunning' = updRunning - 1
    /\ phase' = "scheduled"
    /\ \E ok \in BOOLEAN :
        log' = IF ok THEN "Index update completed successfully." ELSE "Index update failed."
    /\ UNCHANGED <<ticks, closing, connVars, stdioVars, pureVars>>

\* Tick holding the refresh back while a request is in flight
Tick_WhenNoRequest ==
    /\ NoMicrotask
    /\ phase = "scheduled"
    /\ \A c \in AllConns : inflight[c] = {}
    /\ ticks < MaxTicks
    /\ ticks' = ticks + 1
    /\ updRunning' = updRunning + 1
    /\ log' = "Starting incremental index update"
    /\ UNCHANGED <<phase, closing, connVars, stdioVars, pureVars>>

\* setInterval(runGtagsUpdate, ...) fires (831): runGtagsUpdate is called
\* whatever the earlier calls are doing
Tick ==
    /\ NoMicrotask
    /\ phase = "scheduled"
    /\ ticks < MaxTicks
    /\ ticks' = ticks + 1
    /\ updRunning' = updRunning + 1
    /\ log' = "Starting incremental index update"
    /\ UNCHANGED <<phase, closing, connVars, stdioVars, pureVars>>

\* SIGINT or SIGTERM: cleanup (839-848) logs and calls server.close(), which
\* stops accepting and calls back once every connection has ended
Signal ==
    /\ NoMicrotask
    /\ Listening /\ ~closing
    /\ closing' = TRUE
    /\ log' = "Shutting down server..."
    /\ UNCHANGED <<phase, updRunning, ticks, connVars, stdioVars, pureVars>>

\* the callback of server.close() (841-844): process.exit(0)
Exit ==
    /\ NoMicrotask
    /\ Listening /\ closing
    /\ \A c \in AllConns : conn[c] # "open"
    /\ phase' = "exited"
    /\ log' = "Server closed."
    /\ UNCHANGED <<updRunning, ticks, closing, connVars, stdioVars, pureVars>>

(***************************************************************************)
(* GtagsMCPServer: JSON-RPC messages on stdin.                             *)
(***************************************************************************)
Msg(id, method, params, name, args, arg) ==
    [kind |-> "object", jsonrpc |-> "2.0", id |-> id, method |-> method,
     params |-> params, name |-> name, args |-> args, arg |-> arg]

NonObjMsg(kind) ==
    [kind |-> kind, jsonrpc |-> Undefined, id |-> Undefined, method |-> Undefined,
     params |-> Undefined, name |-> Undefined, args |-> Undefined, arg |-> Undefined]

MsgGarbage == NonObjMsg("text")
MsgNull == NonObjMsg("null")
MsgNumber == NonObjMsg("number")
MsgBogus == Msg("1", "bogus", Undefined, Undefined, Undefined, Undefined)
MsgInitialize == Msg("2", "initialize", Undefined, Undefined, Undefined, Undefined)
MsgToolsList == Msg("3", "tools/list", Undefined, Undefined, Undefined, Undefined)
MsgPromptsList == Msg("4", "prompts/list", Undefined, Undefined, Undefined, Undefined)
MsgPromptsGet == Msg("5", "prompts/get", "object", "analyze-codebase", Undefined, Undefined)
MsgCallDef == Msg("6", "tools/call", "object", "get_definition", "object", "Foo")
MsgCallRefs == Msg("7", "tools/call", "object", "get_references", "object", "Foo")
MsgCallNoArgs == Msg("8", "tools/call", "object", "search_pattern", Undefined, Undefined)
MsgCallNoParams == Msg("9", "tools/call", Undefined, Undefined, Undefined, Undefined)

Messages == {MsgGarbage, MsgNull, MsgNumber, MsgBogus, MsgInitialize, MsgToolsList,
             MsgPromptsList, MsgPromptsGet, MsgCallDef, MsgCallRefs, MsgCallNoArgs,
             MsgCallNoParams}

\* the data handler splits a chunk into its lines (19-21): one line, or
\* two that arrived together
Chunks ==
    {<<m>> : m \in Messages} \cup
    {<<MsgCallDef, MsgGarbage>>, <<MsgPromptsGet, MsgToolsList>>, <<MsgNull, MsgCallRefs>>}

\* a template literal prints undefined as "undefined"
Str(v) == IF v = Undefined THEN "undefined" ELSE v

\* what sendResponse / sendError (661-667) put on stdout
RpcResult(m, text) ==
    [jsonrpc |-> Stringify(m.jsonrpc), id |-> Stringify(m.id), kind |-> "result",
     code |-> 0, text |-> text]

RpcError(m, code, message) ==
    [jsonrpc |-> Stringify(m.jsonrpc), id |-> Stringify(m.id), kind |-> "error",
     code |-> code, text |-> message]

\* lines 25-32: id null, code -32700
ParseErrorMessage ==
    [jsonrpc |-> "2.0", id |-> Null, kind |-> "error", code |-> 0 - 32700,
     text |-> "Parse error"]

NoMessage == [jsonrpc |-> Absent, id |-> Absent, kind |-> "none", code |-> 0, text |-> ""]

InternalError == 0 - 32603

\* The outcome of one handleMessage call up to its return or first await that
\* leaves the microtask queue: a message written at once ("sync"), a message
\* written from a microtask ("micro"), a wait for the file system ("access")
\* or for a subprocess ("proc"), or a rejection nobody handles ("unhandled").
Step(how, tool, reply) == [how |-> how, tool |-> tool, reply |-> reply]

KnownTools == {"get_definition", "get_references", "list_symbols_with_prefix",
               "search_pattern"}

\* callTool 385-400
callTool(m) ==
    IF m.params = Undefined
    THEN Step("micro", "none", RpcError(m, InternalError,
              "Cannot destructure property 'name' of 'params' as it is undefined."))
    ELSE IF m.name \notin KnownTools
    THEN Step("micro", "none", RpcError(m, InternalError, "Unknown tool: " \o Str(m.name)))
    ELSE IF m.args = Undefined
    THEN Step("micro", "none", RpcError(m, InternalError,
              "Cannot read properties of undefined"))
    ELSE Step("proc", m.name, NoMessage)

\* getPrompt 138-320
getPrompt(m) ==
    IF m.params = Undefined
    THEN Step("micro", "none", RpcError(m, InternalError,
              "Cannot destructure property 'name' of 'params' as it is undefined."))
    ELSE IF m.name \in {"analyze-codebase", "find-function", "code-navigation",
                        "refactoring-analysis"}
    THEN Step("micro", "none", RpcResult(m, "prompt"))
    ELSE Step("micro", "none", RpcError(m, InternalError, "Unknown prompt: " \o Str(m.name)))

\* handleMessage 39-76.  The destructuring at line 40 is outside the try: for
\* null it throws, and the promise handleMessage returns is rejected with
\* nobody to catch it.
handleMessage(m) ==
    IF m.kind = "null" THEN Step("unhandled", "none", NoMessage)
    ELSE CASE m.method = "initialize" -> Step("access", "gtags", NoMessage)
           [] m.method = "tools/list" -> Step("sync", "none", RpcResult(m, "tools"))
           [] m.method = "tools/call" -> callTool(m)
           [] m.method = "prompts/list" -> Step("sync", "none", RpcResult(m, "prompts"))
           [] m.method = "prompts/get" -> getPrompt(m)
           [] OTHER -> Step("sync", "none",
                            RpcError(m, InternalError, "Unknown method: " \o Str(m.method)))

\* the body of lines.forEach (20-35)
HandleLine(m) ==
    IF m.kind = "text" THEN Step("sync", "none", ParseErrorMessage)
    ELSE handleMessage(m)

InitStdio ==
    /\ isUpdating = FALSE
    /\ sUpdRunning = 0
    /\ sTicks = 0
    /\ sChunks = 0
    /\ sLines = 0
    /\ sBad = {}
    /\ sPending = {}
    /\ sOrder = <<>>
    /\ sLast = [line |-> 0, src |-> MsgGarbage, msg |-> NoMessage]
    /\ crashed = FALSE
    /\ sBoot = "none"
    /\ sEnded = FALSE
    /\ sLog = "GtagsMCPServer started"
    /\ sUpdResult = "none"

InitPure ==
    /\ pFn = "none"
    /\ pIn = [none |-> TRUE]
    /\ pOut = [none |-> TRUE]

Init == InitTcp /\ InitStdio /\ InitPure

\* positions of the chunk whose step is of one of the given kinds, in order
Positions(chunk, hows) ==
    SelectSeq([i \in 1..Len(chunk) |-> i], LAMBDA i : HandleLine(chunk[i]).how \in hows)

\* One 'data' event (18-36) and the microtasks it leaves behind: the lines
\* are handled back to back, so what a line writes synchronously precedes
\* what an earlier line writes after an await.
StdioData(chunk) ==
    /\ ~crashed /\ ~sEnded
    /\ sChunks < MaxChunks
    /\ sChunks' = sChunks + 1
    /\ sLines' = sLines + Len(chunk)
    /\ sBad' = sBad \cup {sLines + i : i \in {j \in 1..Len(chunk) : chunk[j].kind # "object"}}
    /\ LET w == Positions(chunk, {"sync"}) \o Positions(chunk, {"micro"})
           susp == {i \in 1..Len(chunk) : HandleLine(chunk[i]).how \in {"access", "proc"}}
       IN  /\ sOrder' = sOrder \o [k \in 1..Len(w) |-> sLines + w[k]]
           /\ sLast' = IF w = <<>> THEN sLast
                       ELSE [line |-> sLines + w[Len(w)], src |-> chunk[w[Len(w)]],
                             msg |-> HandleLine(chunk[w[Len(w)]]).reply]
           /\ sPending' = sPending \cup
                  {[line |-> sLines + i, src |-> chunk[i],
                    wait |-> HandleLine(chunk[i]).how,
                    tool |-> HandleLine(chunk[i]).tool, left |-> 0] : i \in susp}
    /\ IF \E i \in 1..Len(chunk) : HandleLine(chunk[i]).how = "unhandled"
       THEN crashed' \in BOOLEAN     \* fatal or a warning, by Node version and flags
       ELSE crashed' = FALSE
    /\ UNCHANGED <<isUpdating, sUpdRunning, sTicks, sBoot, sEnded, sLog, sUpdResult, tcpVars, pureVars>>

(***************************************************************************)
(* GtagsMCPServer: runCommand (614-644) and the tools that await it.       *)
(***************************************************************************)
\* 'close' with code 0 resolves with stdout; 'close' with another code and
\* 'error' (the spawn failed) reject with an Error
RunOk(stdout) == [settled |-> "resolved", stdout |-> stdout, message |-> ""]
RunFailed(message) == [settled |-> "rejected", stdout |-> <<>>, message |-> message]

RunOutcomes ==
    {RunOk(StdoutFoo), RunOk(<<>>), RunFailed("Command failed with code 1: "),
     RunFailed("spawn global ENOENT")}

NonBlank(l) == Trim(l) # <<>>

\* output.trim().split('\n').filter(line => line.trim())  (415, 482, 531, 568)
OutputLines(output) == SelectSeq(Split(Trim(output)), NonBlank)

ToolNoun(tool) ==
    CASE tool = "get_definition" -> "definition"
      [] tool = "get_references" -> "references"
      [] tool = "list_symbols_with_prefix" -> "symbols"
      [] tool = "search_pattern" -> "matches"

\* the text of the result a tool returns once its command has settled
\* (getDefinition 412-477, getReferences 479-526, listSymbolsWithPrefix
\* 528-563, searchPattern 565-612); the catch turns a failure into text
ToolText(tool, r) ==
    IF r.settled = "rejected" THEN "Error: " \o r.message
    ELSE IF OutputLines(r.stdout) = <<>> THEN "No " \o ToolNoun(tool) \o " found"
    ELSE "Found " \o ToolNoun(tool)

Answer(it, msg) == [line |-> it.line, src |-> it.src, msg |-> msg]

\* fs.access of ensureGtagsDatabase settles (402-410): with an index the
\* initialize result is sent, without one `gtags` is spawned
StdioAccessDone ==
    /\ ~crashed
    /\ \E it \in sPending :
        /\ it.wait = "access"
        /\ \E exists \in BOOLEAN :
            IF exists
            THEN /\ sPending' = sPending \ {it}
                 /\ sOrder' = Append(sOrder, it.line)
                 /\ sLast' = Answer(it, RpcResult(it.src, "initialize"))
                 /\ sBoot' = "done"
            ELSE /\ sPending' = (sPending \ {it}) \cup {[it EXCEPT !.wait = "proc"]}
                 /\ UNCHANGED <<sOrder, sLast, sBoot>>
    /\ UNCHANGED <<isUpdating, sUpdRunning, sTicks, sChunks, sLines, sBad, crashed,
                   sEnded, sLog, sUpdResult, tcpVars, pureVars>>

\* StdioExecDone with tools that let the failure of their command through
\* to the catch of handleMessage (66-75)
StdioExecDone_Rethrow ==
    /\ ~crashed
    /\ \E it \in sPending :
        /\ it.wait = "proc"
        /\ \E r \in RunOutcomes :
            IF it.tool = "gtags"
            THEN \* initialize 78-97, handleMessage 65-75
                 /\ sPending' = sPending \ {it}
                 /\ sOrder' = Append(sOrder, it.line)
                 /\ sLast' = Answer(it,
                        IF r.settled = "resolved" THEN RpcResult(it.src, "initialize")
                        ELSE RpcError(it.src, InternalError, r.message))
                 /\ sBoot' = IF r.settled = "resolved" THEN "done" ELSE "failed"
            ELSE IF it.tool = "get_definition" /\ r.settled = "resolved"
                    /\ OutputLines(r.stdout) # <<>>
            THEN \* getDefinition reads the file of every line (429-452)
                 /\ sPending' = (sPending \ {it}) \cup
                        {[it EXCEPT !.wait = "read", !.left = Len(OutputLines(r.stdout))]}
                 /\ UNCHANGED <<sOrder, sLast, sBoot>>
            ELSE /\ sPending' = sPending \ {it}
                 /\ sOrder' = Append(sOrder, it.line)
                 /\ sLast' = Answer(it,
                        IF r.settled = "rejected"
                        THEN RpcError(it.src, InternalError, r.message)
                        ELSE RpcResult(it.src, ToolText(it.tool, r)))
                 /\ UNCHANGED sBoot
    /\ UNCHANGED <<isUpdating, sUpdRunning, sTicks, sChunks, sLines, sBad, crashed,
                   sEnded, sLog, sUpdResult, tcpVars, pureVars>>

\* a subprocess started for a request ends
StdioExecDone ==
    /\ ~crashed
    /\ \E it \in sPending :
        /\ it.wait = "proc"
        /\ \E r \in RunOutcomes :
            IF it.tool = "gtags"
            THEN \* initialize 78-97, handleMessage 65-75
                 /\ sPending' = sPending \ {it}
                 /\ sOrder' = Append(sOrder, it.line)
                 /\ sLast' = Answer(it,
                        IF r.settled = "resolved" THEN RpcResult(it.src, "initialize")
                        ELSE RpcError(it.src, InternalError, r.message))
                 /\ sBoot' = IF r.settled = "resolved" THEN "done" ELSE "failed"
            ELSE IF it.tool = "get_definition" /\ r.settled = "resolved"
                    /\ OutputLines(r.stdout) # <<>>
            THEN \* getDefinition reads the file of every line (429-452)
                 /\ sPending' = (sPending \ {it}) \cup
                        {[it EXCEPT !.wait = "read", !.left = Len(OutputLines(r.stdout))]}
                 /\ UNCHANGED <<sOrder, sLast, sBoot>>
            ELSE /\ sPending' = sPending \ {it}
                 /\ sOrder' = Append(sOrder, it.line)
                 /\ sLast' = Answer(it, RpcResult(it.src, ToolText(it.tool, r)))
                 /\ UNCHANGED sBoot
    /\ UNCHANGED <<isUpdating, sUpdRunning, sTicks, sChunks, sLines, sBad, crashed,
                   sEnded, sLog, sUpdResult, tcpVars, pureVars>>

\* StdioReadDone waiting for the refresh: the last record is only sent
\* once no update is running
StdioReadDone_AfterRefresh ==
    /\ ~crashed
    /\ \E it \in sPending :
        /\ it.wait = "read"
        /\ IF it.left > 1
           THEN /\ sPending' = (sPending \ {it}) \cup {[it EXCEPT !.left = @ - 1]}
                /\ UNCHANGED <<sOrder, sLast>>
           ELSE /\ ~isUpdating
                /\ sPending' = sPending \ {it}
                /\ sOrder' = Append(sOrder, it.line)
                /\ sLast' = Answer(it, RpcResult(it.src, "Found definition"))
    /\ UNCHANGED <<isUpdating, sUpdRunning, sTicks, sChunks, sLines, sBad, crashed,
                   sBoot, sEnded, sLog, sUpdResult, tcpVars, pureVars>>

\* one fs.readFile of getDefinition settles (434, 444): read or not, a
\* record is pushed; after the last one the result is sent
StdioReadDone ==
    /\ ~crashed
    /\ \E it \in sPending :
        /\ it.wait = "read"
        /\ IF it.left > 1
           THEN /\ sPending' = (sPending \ {it}) \cup {[it EXCEPT !.left = @ - 1]}
                /\ UNCHANGED <<sOrder, sLast>>
           ELSE /\ sPending' = sPending \ {it}
                /\ sOrder' = Append(sOrder, it.line)
                /\ sLast' = Answer(it, RpcResult(it.src, "Found definition"))
    /\ UNCHANGED <<isUpdating, sUpdRunning, sTicks, sChunks, sLines, sBad, crashed,
                   sBoot, sEnded, sLog, sUpdResult, tcpVars, pureVars>>

(***************************************************************************)
(* GtagsMCPServer: startPeriodicUpdate (646-659).                          *)
(***************************************************************************)
\* StdioTick with a callback that gives up on a refresh still running at
\* the next firing and starts another
StdioTick_Restart ==
    /\ ~crashed
    /\ sTicks' = IF sTicks < MaxTicks THEN sTicks + 1 ELSE sTicks
    /\ isUpdating' = TRUE
    /\ sUpdRunning' = IF sUpdRunning < 2 THEN sUpdRunning + 1 ELSE sUpdRunning
    /\ UNCHANGED <<sChunks, sLines, sBad, sPending, sOrder, sLast, crashed,
                   sBoot, sEnded, sLog, sUpdResult, tcpVars, pureVars>>

\* the interval callback: skip while an update is running, else set the
\* flag and start `global -u`.  The timer is never cleared: it goes on
\* firing when the count of its firings has stopped at MaxTicks.
StdioTick ==
    /\ ~crashed
    /\ sTicks' = IF sTicks < MaxTicks THEN sTicks + 1 ELSE sTicks
    /\ IF ~isUpdating
       THEN /\ isUpdating' = TRUE
            /\ sUpdRunning' = sUpdRunning + 1
       ELSE UNCHANGED <<isUpdating, sUpdRunning>>
    /\ UNCHANGED <<sChunks, sLines, sBad, sPending, sOrder, sLast, crashed,
                   sBoot, sEnded, sLog, sUpdResult, tcpVars, pureVars>>

\* StdioUpdateDone with a catch that reports the failure on stdout
StdioUpdateDone_Surfacing ==
    /\ ~crashed
    /\ sUpdRunning > 0
    /\ sUpdRunning' = sUpdRunning - 1
    /\ isUpdating' = FALSE
    /\ \E ok \in BOOLEAN :
        /\ sUpdResult' = IF ok THEN "ok" ELSE "failed"
        /\ IF ok THEN UNCHANGED sLast
           ELSE sLast' = [line |-> 0, src |-> MsgGarbage,
                          msg |-> RpcError(MsgGarbage, InternalError, "update failed")]
    /\ UNCHANGED <<sTicks, sChunks, sLines, sBad, sPending, sOrder, crashed,
                   sBoot, sEnded, sLog, tcpVars, pureVars>>

\* StdioUpdateDone with the flag cleared after the await instead of in a
\* finally: a failed update leaves it set
StdioUpdateDone_NoFinally ==
    /\ ~crashed
    /\ sUpdRunning > 0
    /\ sUpdRunning' = sUpdRunning - 1
    /\ \E ok \in BOOLEAN :
        /\ sUpdResult' = IF ok THEN "ok" ELSE "failed"
        /\ isUpdating' = IF ok THEN FALSE ELSE isUpdating
    /\ UNCHANGED <<sTicks, sChunks, sLines, sBad, sPending, sOrder, sLast, crashed,
                   sBoot, sEnded, sLog, tcpVars, pureVars>>

\* `global -u` ends, well or badly (650-656): the catch is empty, the
\* finally clears the flag
StdioUpdateDone ==
    /\ ~crashed
    /\ sUpdRunning > 0
    /\ sUpdRunning' = sUpdRunning - 1
    /\ isUpdating' = FALSE
    /\ \E ok \in BOOLEAN : sUpdResult' = IF ok THEN "ok" ELSE "failed"
    /\ UNCHANGED <<sTicks, sChunks, sLines, sBad, sPending, sOrder, sLast, crashed,
                   sBoot, sEnded, sLog, tcpVars, pureVars>>

\* stdin reaches end of stream: only a 'data' listener is registered
\* (17-36), so nothing runs; the interval timer stays armed
StdioEnd ==
    /\ ~crashed /\ ~sEnded
    /\ sEnded' = TRUE
    /\ UNCHANGED <<isUpdating, sUpdRunning, sTicks, sChunks, sLines, sBad, sPending,
                   sOrder, sLast, crashed, sBoot, sLog, sUpdResult, tcpVars, pureVars>>

(***************************************************************************)
(* The parsers applied to bounded inputs.                                  *)
(***************************************************************************)
DigitChar(d) ==
    CASE d = 0 -> "0" [] d = 1 -> "1" [] d = 2 -> "2" [] d = 3 -> "3"
      [] d = 4 -> "4" [] d = 5 -> "5" [] d = 6 -> "6" [] d = 7 -> "7"
      [] d = 8 -> "8" [] d = 9 -> "9"

\* the decimal digits of a natural number
RECURSIVE FormatInt(_)
FormatInt(n) ==
    IF n < 10 THEN <<DigitChar(n)>> ELSE FormatInt(n \div 10) \o <<DigitChar(n % 10)>>

\* one line of the layout the regular expression of parseLocationOutput
\* reads: '<symbol> <line-number> <file-path> <code-text>'
Render(rec) ==
    rec.symbol \o <<" ">> \o FormatInt(rec.line) \o <<" ">> \o rec.file \o <<" ">>
        \o rec.code \o <<"\n">>

CodeVoidFoo == <<"v","o","i","d"," ","F","o","o","(",")"," ","{">>

\* code texts without a newline: plain, with inner blanks, with a leading
\* blank, with a trailing blank, and empty
Codes ==
    {<<"x">>, CodeVoidFoo, <<"a"," "," ","b">>, <<" ","x">>, <<"x"," ">>, <<>>}

Records ==
    [symbol : {<<"F","o","o">>},
     line : {7, 10, 123},
     file : {<<"a",".","c">>, <<"s","r","c","/","a",".","t","x","t">>},
     code : Codes]

\* parseLocationOutput applied to the rendering of a record; a behaviour
\* applies one function to one input
RoundTrip ==
    /\ pFn = "none"
    /\ \E rec \in Records :
        /\ pFn' = "roundtrip"
        /\ pIn' = [rec |-> rec]
        /\ pOut' = [recs |-> parseLocationOutput(Render(rec))]
    /\ UNCHANGED <<tcpVars, stdioVars>>

\* lines a tool output is made of: two of the four-field shape (the second
\* in aligned columns), one of that shape with nothing after the file's
\* separator, and three that are not of it
LineKinds == {"def", "aligned", "nocode", "word", "blank", "noline"}

LineText(kind) ==
    CASE kind = "def" -> <<"F"," ","7"," ","a",".","c"," ","x","(",")">>
      [] kind = "aligned" -> <<"G"," "," ","1","0"," ","b",".","c"," "," ","y",";">>
      [] kind = "nocode" -> <<"H"," ","3"," ","c",".","c"," ">>
      [] kind = "word" -> <<"g","a","r","b","a","g","e">>
      [] kind = "blank" -> <<>>
      [] kind = "noline" -> <<"F"," ","x"," ","a",".","c"," ","y">>

\* the tool output holding the given lines, each ended by a newline
RECURSIVE OutputOf(_)
OutputOf(kinds) ==
    IF kinds = <<>> THEN <<>>
    ELSE LineText(Head(kinds)) \o <<"\n">> \o OutputOf(Tail(kinds))

\* every sequence of at most n elements of S
SeqsUpTo(S, n) == UNION {[1..k -> S] : k \in 0..n}

\* parseLocationOutput applied to a tool output
ParseOutput ==
    /\ pFn = "none"
    /\ \E kinds \in SeqsUpTo(LineKinds, MaxOutLines) :
        /\ pFn' = "parse"
        /\ pIn' = [kinds |-> kinds]
        /\ pOut' = [recs |-> parseLocationOutput(OutputOf(kinds))]
    /\ UNCHANGED <<tcpVars, stdioVars>>

\* texts found in the line-number column of a tool output line
LineFields ==
    {<<"7">>, <<"1","0">>, <<"0">>, <<"0","0">>, <<"0","7">>,
     <<"x">>, <<"-","5">>, <<"1",".","5">>, <<"7","x">>}

\* the output line carrying the given text in its second column
LineWithField(f) ==
    <<"F"," ">> \o f \o <<" ","a",".","c"," ","x","\n">>

\* parseLocationOutput applied to one line with the given line-number text
ParseLine ==
    /\ pFn = "none"
    /\ \E f \in LineFields :
        /\ pFn' = "line"
        /\ pIn' = [field |-> f]
        /\ pOut' = [recs |-> parseLocationOutput(LineWithField(f))]
    /\ UNCHANGED <<tcpVars, stdioVars>>

(***************************************************************************)
(* Framing of the input stream: the 'data' handler of GtagsMCPServer       *)
(* (18-36) and the readline interface of a TCP connection (788-793).       *)
(***************************************************************************)
\* the lines one 'data' event hands to JSON.parse (19-21)
DataLines(data) == SelectSeq(Split(Trim(data)), NonBlank)

\* the lines handled when the stream arrives as the given reads
RECURSIVE StdinLines(_)
StdinLines(reads) ==
    IF reads = <<>> THEN <<>>
    ELSE DataLines(Head(reads)) \o StdinLines(Tail(reads))

\* readline: characters are buffered and a 'line' event is emitted for each
\* newline received
RECURSIVE RlFeed(_, _, _)
RlFeed(data, buf, out) ==
    IF data = <<>> THEN [lines |-> out, buf |-> buf]
    ELSE IF Head(data) = "\n" THEN RlFeed(Tail(data), <<>>, Append(out, buf))
    ELSE RlFeed(Tail(data), Append(buf, Head(data)), out)

\* the 'line' events of a connection whose stream arrives as the given reads
RECURSIVE RlReads(_, _, _)
RlReads(reads, buf, out) ==
    IF reads = <<>> THEN [lines |-> out, buf |-> buf]
    ELSE LET r == RlFeed(Head(reads), buf, out)
         IN  RlReads(Tail(reads), r.buf, r.lines)

ReadlineLines(reads) == RlReads(reads, <<>>, <<>>).lines

\* characters of the input stream: two of a request's text and the newline
StreamChars == {"a", "b", "\n"}

\* the streams of at most MaxText characters
Streams == UNION {[1..k -> StreamChars] : k \in 0..MaxText}

\* one stream arrives in a single read and, cut at some position, in two
ReadStream ==
    /\ pFn = "none"
    /\ \E text \in Streams : \E cut \in 0..Len(text) :
        LET parts == <<Take(text, cut), Drop(text, cut)>>
        IN  /\ pFn' = "read"
            /\ pIn' = [text |-> text, cut |-> cut]
            /\ pOut' = [stdinWhole |-> StdinLines(<<text>>),
                        stdinParts |-> StdinLines(parts),
                        rlWhole |-> ReadlineLines(<<text>>),
                        rlParts |-> ReadlineLines(parts)]
    /\ UNCHANGED <<tcpVars, stdioVars>>

(***************************************************************************)
(* The id/command test of rl.on('line') (794-803) applied to the values a  *)
(* JSON id can have.                                                       *)
(***************************************************************************)
\* ids that are JSON strings
StringIds == {"1", "req-1", ""}

\* ids that are not: the numbers 7 and 0, true, false, an object, null,
\* and a missing id
OtherIds == {"<7>", "<0>", "<true>", "<false>", "<object>", Null, Undefined}

\* a get_definition request with the given id is received; a request that
\* passes the test is answered with its own id (808, 810), any other with
\* the id null (801)
AcceptLine ==
    /\ pFn = "none"
    /\ \E id \in StringIds \cup OtherIds :
        LET line == Obj(id, "get_definition", "object", "Foo", Undefined, Undefined)
            ok == DecodeLine(line).ok
        IN  /\ pFn' = "accept"
            /\ pIn' = [id |-> id]
            /\ pOut' = [ok |-> ok,
                        id |-> IF ok THEN SuccessResponse(line.id, <<>>).id
                               ELSE InvalidResponse(DecodeLine(line).details).id]
    /\ UNCHANGED <<tcpVars, stdioVars>>

(***************************************************************************)
(* The command line executeGlobalCommand (747-755) hands to exec, and the  *)
(* arguments the tool receives once the shell has read it.                 *)
(***************************************************************************)
\* the first argument processRequest passes for a command (772, 774, 776)
FlagOf(command) ==
    CASE command = "get_definition" -> <<"-","x">>
      [] command = "get_references" -> <<"-","x","r">>
      [] command = "list_symbols_with_prefix" -> <<"-","c">>

\* args.join(' ')
RECURSIVE JoinBlank(_)
JoinBlank(args) ==
    IF args = <<>> THEN <<>>
    ELSE IF Len(args) = 1 THEN Head(args)
    ELSE Head(args) \o <<" ">> \o JoinBlank(Tail(args))

\* `global ${args.join(' ')}` (749)
CommandLine(args) == <<"g","l","o","b","a","l"," ">> \o JoinBlank(args)

\* the shell ends a command at an unquoted `;`
RECURSIVE FirstCommand(_)
FirstCommand(s) ==
    IF s = <<>> \/ Head(s) = ";" THEN <<>>
    ELSE <<Head(s)>> \o FirstCommand(Tail(s))

\* the shell separates the words of a command at unquoted blanks
RECURSIVE ShellWords(_, _)
ShellWords(s, cur) ==
    IF s = <<>> THEN (IF cur = <<>> THEN <<>> ELSE <<cur>>)
    ELSE IF Head(s) = " "
    THEN (IF cur = <<>> THEN <<>> ELSE <<cur>>) \o ShellWords(Tail(s), <<>>)
    ELSE ShellWords(Tail(s), Append(cur, Head(s)))

\* the arguments of the first program exec(command) starts
ExecArgv(command) == Tail(ShellWords(FirstCommand(command), <<>>))

\* values of params.symbol and params.prefix
Values ==
    {<<"F","o","o">>, <<"F">>, <<>>, <<"a"," ","b">>, <<"a",";","b">>,
     <<" ","a">>, <<"a","-","b">>, <<"a","_","1">>}

QueryCommands == {"get_definition", "get_references", "list_symbols_with_prefix"}

\* executeGlobalCommand is called for a query and the tool is started
ExecQuery ==
    /\ pFn = "none"
    /\ \E command \in QueryCommands : \E value \in Values :
        /\ pFn' = "exec"
        /\ pIn' = [command |-> command, value |-> value]
        /\ pOut' = [argv |-> ExecArgv(CommandLine(<<FlagOf(command), value>>))]
    /\ UNCHANGED <<tcpVars, stdioVars>>

(***************************************************************************)
(* parseArguments (699-731) applied to bounded command lines.              *)
(***************************************************************************)
ArgDir == <<"-","-","d","i","r">>
ArgPath == <<"/","p">>
ArgPort == <<"-","-","p","o","r","t">>
Arg8080 == <<"8","0","8","0">>
ArgInterval == <<"-","-","i","n","t","e","r","v","a","l">>
Arg30 == <<"3","0">>
ArgIntervalEq == <<"-","-","i","n","t","e","r","v","a","l","=">>
ArgIntervalEq30 == <<"-","-","i","n","t","e","r","v","a","l","=","3","0">>
ArgIntervalEq0 == <<"-","-","i","n","t","e","r","v","a","l","=","0">>
ArgIntervalEqX == <<"-","-","i","n","t","e","r","v","a","l","=","x">>

\* process.argv.slice(2) of the command lines considered
Argvs ==
    {<<ArgDir, ArgPath>>,
     <<ArgDir, ArgPath, ArgInterval, Arg30>>,
     <<ArgInterval, Arg30, ArgDir, ArgPath>>,
     <<ArgDir, ArgPath, ArgIntervalEq30>>,
     <<ArgIntervalEq30, ArgDir, ArgPath>>,
     <<ArgDir, ArgPath, ArgIntervalEq0>>,
     <<ArgDir, ArgPath, ArgIntervalEqX>>,
     <<ArgDir, ArgPath, ArgIntervalEq>>,
     <<ArgDir, ArgPath, ArgPort, Arg8080, ArgIntervalEq30>>,
     <<ArgDir, ArgIntervalEq30>>,
     <<ArgInterval, Arg30>>,
     <<ArgDir>>,
     <<>>}

DefaultInterval == 15
DefaultPort == 3000
PortLimit == 65536
MsPerSecond == 1000

\* s.startsWith(t)
StartsWith(s, t) == Len(s) >= Len(t) /\ SubSeq(s, 1, Len(t)) = t

\* s.split('=')[1] for a text that holds a '=': what lies between the
\* first '=' and the next one
AfterEq(s) ==
    LET rest == Drop(s, RunNotIn(s, {"="}) + 1)
    IN  Take(rest, RunNotIn(rest, {"="}))

NaN == [nan |-> TRUE, val |-> 0]

\* parseInt(s, 10): blanks, a sign, the leading decimal digits; NaN when
\* there is none
JsParseInt(s) ==
    LET t == TrimStart(s)
        signed == t # <<>> /\ Head(t) \in {"-", "+"}
        u == IF signed THEN Tail(t) ELSE t
        n == RunIn(u, Digits)
        v == ParseInt(Take(u, n), 0)
    IN  IF n = 0 THEN NaN
        ELSE [nan |-> FALSE, val |-> IF signed /\ Head(t) = "-" THEN 0 - v ELSE v]

\* projectPath before --dir is seen (null); path.resolve never gives ''
NoPath == <<>>

\* the for loop of parseArguments from index i on (706-723)
RECURSIVE ArgLoop(_, _, _)
ArgLoop(args, i, acc) ==
    IF i > Len(args) THEN acc
    ELSE IF args[i] = ArgDir /\ i + 1 <= Len(args)
    THEN ArgLoop(args, i + 2, [acc EXCEPT !.projectPath = args[i + 1]])
    ELSE IF args[i] = ArgPort /\ i + 1 <= Len(args)
    THEN LET parsedPort == JsParseInt(args[i + 1])
         IN  ArgLoop(args, i + 2,
                 IF ~parsedPort.nan /\ parsedPort.val > 0 /\ parsedPort.val < PortLimit
                 THEN [acc EXCEPT !.port = parsedPort.val] ELSE acc)
    ELSE IF StartsWith(args[i], ArgIntervalEq)
    THEN LET value == JsParseInt(AfterEq(args[i]))
         IN  ArgLoop(args, i + 1,
                 IF ~value.nan /\ value.val > 0
                 THEN [acc EXCEPT !.updateIntervalSeconds = value.val] ELSE acc)
    ELSE ArgLoop(args, i + 1, acc)

\* parseArguments: exit is process.exit(1) for a missing --dir
parseArguments(args) ==
    LET r == ArgLoop(args, 1,
                 [projectPath |-> NoPath, port |-> DefaultPort,
                  updateIntervalSeconds |-> DefaultInterval])
    IN  [exit |-> r.projectPath = NoPath, projectPath |-> r.projectPath,
         port |-> r.port, updateIntervalSeconds |-> r.updateIntervalSeconds]

\* the period handed to setInterval (831), in milliseconds
TimerPeriod(args) == parseArguments(args).updateIntervalSeconds * MsPerSecond

\* the module is loaded with a command line (733)
ParseArgs ==
    /\ pFn = "none"
    /\ \E args \in Argvs :
        /\ pFn' = "args"
        /\ pIn' = [args |-> args]
        /\ pOut' = [exit |-> parseArguments(args).exit, period |-> TimerPeriod(args)]
    /\ UNCHANGED <<tcpVars, stdioVars>>

(***************************************************************************)
(* Specifications.                                                         *)
(***************************************************************************)
\* the TCP server with one client
Next ==
    \/ Listen
    \/ ListenError
    \/ Tick
    \/ UpdateDone
    \/ \E c \in Conns, line \in Lines : Line(c, line)
    \/ \E c \in Conns : Resume(c)
    \/ \E c \in Conns : ExecDone(c)
    \/ \E c \in Conns : Connect(c)
    \/ \E c \in Conns : End(c)

Spec == Init /\ [][Next]_vars

\* the TCP server with one client and the shutdown signals
ShutdownLines == {LineDef, LineBogus, LineGarbage}

NextShutdown ==
    \/ Listen
    \/ ListenError
    \/ Tick
    \/ UpdateDone
    \/ \E c \in Conns, line \in ShutdownLines : Line(c, line)
    \/ \E c \in Conns : Resume(c)
    \/ \E c \in Conns : ExecDone(c)
    \/ \E c \in Conns : Connect(c)
    \/ \E c \in Conns : End(c)
    \/ Signal
    \/ Exit

SpecShutdown == Init /\ [][NextShutdown]_vars

\* the TCP server with two clients
MultiLines == {LineDef, LineGarbage}
MultiCauses == {"found", "crash"}

LineMulti(c, line) == nlines[c] < MaxLinesMulti /\ Line(c, line)

NextMulti ==
    \/ Listen
    \/ ListenError
    \/ Tick
    \/ UpdateDone
    \/ \E c \in AllConns, line \in MultiLines : LineMulti(c, line)
    \/ \E c \in AllConns : ExecDoneOf(c, MultiCauses)
    \/ \E c \in AllConns : Connect(c)
    \/ \E c \in AllConns : End(c)

SpecMulti == Init /\ [][NextMulti]_vars

\* GtagsMCPServer on stdio
NextStdio ==
    \/ \E chunk \in Chunks : StdioData(chunk)
    \/ StdioAccessDone
    \/ StdioExecDone
    \/ StdioReadDone
    \/ StdioTick
    \/ StdioUpdateDone
    \/ StdioEnd

SpecStdio == Init /\ [][NextStdio]_vars

\* the parsers of the module, each applied to an input of its domain
NextPure ==
    \/ RoundTrip
    \/ ParseArgs
    \/ ParseOutput
    \/ ParseLine
    \/ ReadStream
    \/ AcceptLine
    \/ ExecQuery

SpecPure == Init /\ [][NextPure]_vars

\* every subprocess, file operation and timer of the process makes progress
SpecStdioFair ==
    /\ SpecStdio
    /\ WF_vars(StdioAccessDone)
    /\ WF_vars(StdioExecDone)
    /\ WF_vars(StdioReadDone)
    /\ WF_vars(StdioTick)
    /\ WF_vars(StdioUpdateDone)

(***************************************************************************)
(* Properties.                                                             *)
(***************************************************************************)
Count(seq, x) == Cardinality({k \in DOMAIN seq : seq[k] = x})

\* the request shape and the command set of the protocol
WellFormedRequest(l) == l.kind = "object" /\ Truthy(l.id) /\ Truthy(l.command)
MalformedLine(l) == l.kind # "object" \/ l.id = Undefined \/ l.command = Undefined
SupportedCommands == {"get_definition", "get_references", "list_symbols_with_prefix",
                      "search_pattern"}
LookupCommands == {"get_definition", "get_references", "list_symbols_with_prefix"}

\* the latest response on connection c answers a line
Answered(c) == last[c].line > 0

\* C1: at most one index-update subprocess is in flight in every reachable
\* state, in either server.
C1_NoOverlappingUpdates == updRunning <= 1 /\ sUpdRunning <= 1

\* C2: on one connection at most one request is waiting for its subprocess:
\* a line is not taken up before the previous one has been answered.
C2_OneRequestInFlight ==
    \A c \in AllConns : Cardinality({it \in inflight[c] : it.wait = "proc"}) <= 1

\* C3: on one connection the responses are written in the order of the
\* lines they answer.
C3_ResponsesInRequestOrder ==
    \A c \in AllConns :
        \A j, k \in DOMAIN order[c] : j < k => order[c][j] < order[c][k]

\* C4: every malformed line (no JSON, or JSON that is no request object)
\* gets exactly one response, an error, and the session goes on.
C4_MalformedAnsweredOnce ==
    /\ \A c \in AllConns :
        /\ (nlines[c] > 0 /\ MalformedLine(lastLine[c])) => Count(order[c], nlines[c]) = 1
        /\ (Answered(c) /\ MalformedLine(last[c].src)) => last[c].resp.status = "error"
    /\ \A i \in sBad : Count(sOrder, i) = 1
    /\ (sLast.line > 0 /\ sLast.src.kind # "object") => sLast.msg.kind = "error"
    /\ ~crashed

\* C5: the error response to a rejected line echoes the id of the line when
\* it has one, and carries id null only when it has none.
C5_MalformedEchoesId ==
    \A c \in AllConns :
        (Answered(c) /\ ~DecodeLine(last[c].src).ok) =>
            last[c].resp.id = IF last[c].src.id # Undefined THEN last[c].src.id ELSE Null

\* C6: a well-formed request whose command is not a supported command is
\* answered {id, status "error", message "Unknown command: <command>"} and
\* no subprocess is spawned for it.
C6_UnknownCommand ==
    \A c \in AllConns :
        /\ \A it \in inflight[c] :
            (WellFormedRequest(it.src) /\ it.src.command \notin SupportedCommands)
                => (it.wait = "micro" /\ it.cmdline = "")
        /\ (Answered(c) /\ WellFormedRequest(last[c].src)
               /\ last[c].src.command \notin SupportedCommands)
            => /\ last[c].resp.status = "error"
               /\ last[c].resp.id = last[c].src.id
               /\ last[c].resp.message = "Unknown command: " \o last[c].src.command
               /\ last[c].tool = NoOutcome

C6_Witness == Answered(1) /\ last[1].src = LineBogus

\* C7: a well-formed search_pattern request with its params is handed to
\* the tool and is never answered as an unknown command.
C7_SearchPatternDispatched ==
    \A c \in AllConns :
        /\ \A it \in inflight[c] :
            (WellFormedRequest(it.src) /\ it.src.command = "search_pattern"
                /\ it.src.params # Undefined) => it.wait = "proc"
        /\ (Answered(c) /\ WellFormedRequest(last[c].src)
               /\ last[c].src.command = "search_pattern" /\ last[c].src.params # Undefined)
            => last[c].resp.message # "Unknown command: search_pattern"

\* C8: when the tool finds nothing for get_definition, get_references or
\* list_symbols_with_prefix (exit 0 with empty output, or a non-zero exit
\* that only says so), the response is a success with the empty list.
C8_ZeroResultsSucceed ==
    \A c \in AllConns :
        (Answered(c) /\ last[c].tool.cause = "zero"
            /\ last[c].src.command \in LookupCommands)
        => /\ last[c].resp.status = "success"
           /\ last[c].resp.id = last[c].src.id
           /\ last[c].resp.hasPayload /\ last[c].resp.payload = <<>>
           /\ ~last[c].resp.hasError

C8_Witness ==
    /\ Answered(1) /\ last[1].tool = ZeroExitNonZero
    /\ last[1].src.command \in LookupCommands /\ last[1].resp.status = "success"

\* C9: when the tool fails for another reason than zero results (missing
\* executable, bad arguments, crash) the request is answered with status
\* "error", never with a success.
C9_FailureIsError ==
    \A c \in AllConns :
        (Answered(c) /\ last[c].tool.cause \in {"missing", "badargs", "crash"})
            => last[c].resp.status = "error"

\* C10: every response of status "error" carries an error object whose
\* message is present and is a string.
C10_ErrorHasMessage ==
    \A c \in AllConns :
        (Answered(c) /\ last[c].resp.status = "error")
            => (last[c].resp.hasError /\ last[c].resp.message \notin {Absent, Null})

\* the text of a stderr given as its words
RECURSIVE JoinWords(_)
JoinWords(ws) ==
    IF ws = <<>> THEN ""
    ELSE IF Len(ws) = 1 THEN ws[1]
    ELSE ws[1] \o " " \o JoinWords(Tail(ws))

\* the tool failed and the adapter did not take it for zero results
AdapterFailed(o) == o.err /\ ~Includes(o.stderr, <<"not", "found">>)

\* C11: when an adapter query fails, the request is answered with status
\* "error" and the details of the error carry the stderr text the
\* subprocess wrote.
C11_DetailsCarryStderr ==
    \A c \in AllConns :
        (Answered(c) /\ AdapterFailed(last[c].tool))
            => /\ last[c].resp.status = "error"
               /\ last[c].resp.details = JoinWords(last[c].tool.stderr)

\* C12: every response has status "success" or "error"; a success carries a
\* payload and no error, an error carries an error and no payload.
C12_PayloadXorError ==
    \A c \in AllConns :
        Answered(c) =>
            /\ last[c].resp.status \in {"success", "error"}
            /\ last[c].resp.hasPayload <=> (last[c].resp.status = "success")
            /\ last[c].resp.hasError <=> (last[c].resp.status = "error")

C12_Witness ==
    /\ Answered(1) /\ last[1].tool = Crash /\ last[1].resp.status = "error"
    /\ last[1].resp.hasError /\ ~last[1].resp.hasPayload

\* a `global` query of a tools/call is running
QueryIssued == \E it \in sPending : it.wait = "proc" /\ it.tool \in KnownTools

\* C13: no query is issued to the indexing tool before the bootstrap (the
\* check for an index and, without one, the full build) has completed.
C13_BootstrapBeforeQueries == QueryIssued => sBoot = "done"

\* C14: no event after startup is fatal to the process: whatever lines,
\* failed requests, subprocess failures and failed refreshes have happened,
\* the process is alive.
C14_NothingFatal == (sLines > 0 \/ sUpdResult # "none") => ~crashed

\* C15: if bootstrapping the initial index fails, or the transport cannot be
\* bound, the process terminates and no request is served: no response is
\* ever written by a process whose bootstrap failed, and none after a
\* failed bind.
C15_BootstrapFailureTerminates ==
    /\ sBoot = "failed" => (crashed /\ sOrder = <<>>)
    /\ (phase = "exited" /\ ~closing) => \A c \in AllConns : order[c] = <<>>

\* a `global -u` of the periodic refresh ends in this step, and ends badly
StdioRefreshFails == sUpdRunning' < sUpdRunning /\ sUpdResult' = "failed"

\* a `gtags -i` of the TCP server's refresh ends in this step, and ends badly
TcpRefreshFails == updRunning' < updRunning /\ log' = "Index update failed."

C16_TcpFailedRefreshLogged ==
    [][TcpRefreshFails => UNCHANGED <<order, last, inflight>>]_vars

\* the stdio process is gone
Terminated == crashed

\* C19: once stdin has reached end of stream, the process eventually exits.
C19_EofExits == sEnded ~> Terminated

\* the records of the two location outputs, field by field
RecordFoo ==
    [symbol |-> <<"F","o","o">>, line |-> 10,
     file |-> <<"s","r","c","/","a",".","t","x","t">>,
     code |-> <<"v","o","i","d"," ","F","o","o","(",")"," ","{">>]

RecordFooSecond ==
    [symbol |-> <<"F","o","o">>, line |-> 22,
     file |-> <<"l","i","b","/","b",".","c">>,
     code |-> <<"i","n","t"," ","F","o","o"," ","="," ","1",";">>]

ExpectedRecords(stdout) ==
    IF stdout = StdoutFoo THEN <<RecordFoo>>
    ELSE IF stdout = StdoutFooTwice THEN <<RecordFoo, RecordFooSecond>>
    ELSE <<>>

DefinitionFound(c) ==
    /\ Answered(c)
    /\ last[c].src.command = "get_definition"
    /\ last[c].tool.cause = "found"

\* C17: a get_definition request whose tool output is lines of the layout
\* '<symbol> <line-number> <file-path> <code-text>' is answered with
\* {id, status: "success", payload}, the payload holding one record per line,
\* in output order, with symbol, line (an integer), file and code taken from
\* the first, second, third and remaining fields.
C17_DefinitionRecords ==
    \A c \in AllConns :
        DefinitionFound(c) =>
            /\ last[c].resp.id = Stringify(last[c].src.id)
            /\ last[c].resp.status = "success"
            /\ last[c].resp.hasPayload /\ ~last[c].resp.hasError
            /\ last[c].resp.payload = ExpectedRecords(last[c].tool.stdout)

C17_Witness ==
    /\ DefinitionFound(1)
    /\ last[1].src = LineDef
    /\ last[1].tool.stdout = StdoutFooTwice
    /\ Len(last[1].resp.payload) = 2

\* no request of any connection is in flight
Settled == \A c \in AllConns : inflight[c] = {}

\* C20: after SIGINT or SIGTERM, once the requests in flight have settled
\* the process exits, whether or not clients keep their connections open:
\* the step that ends the process is then possible.
C20_SignalExits == (closing /\ phase # "exited" /\ Settled) => ENABLED Exit

\* the session of connection c ends in this step
Ends(c) == conn[c] = "open" /\ conn'[c] = "ended"

\* what the server holds for connection d
Session(d) == <<conn[d], nlines[d], lastLine[d], inflight[d], order[d], last[d]>>

\* the next line of connection d can be read
Readable(d) == nlines[d] < MaxLinesMulti => ENABLED LineMulti(d, LineDef)

\* a request of connection d settles in this step
Settles(d) == inflight'[d] # inflight[d] /\ inflight'[d] \subseteq inflight[d]

\* a session has ended while connection d is open and the server is up
OtherEnded(d) ==
    /\ phase # "exited"
    /\ conn[d] = "open"
    /\ \E c \in AllConns \ {d} : conn[c] = "ended"

\* C18: end of stream or a socket error on one connection ends only that
\* connection's session: the step leaves every other session and the
\* refresh scheduler as they were; from then on the lines of the other
\* connections can still be read, their requests are answered when they
\* settle, and the timer still fires.
C18_EndIsLocal ==
    /\ [][\A c \in AllConns :
             Ends(c) => /\ \A d \in AllConns \ {c} : Session(d)' = Session(d)
                        /\ UNCHANGED schedVars]_vars
    /\ [][\A d \in AllConns :
             (OtherEnded(d) /\ Settles(d)) => Len(order'[d]) = Len(order[d]) + 1]_vars
    /\ [](\A d \in AllConns : (OtherEnded(d) /\ NoMicrotask) => Readable(d))
    /\ []((phase = "scheduled" /\ ticks < MaxTicks) => ENABLED Tick)

C18_Witness ==
    /\ conn[1] = "ended"
    /\ conn[2] = "open"
    /\ order[2] # <<>>
    /\ last[2].resp.status = "success"
    /\ nlines[1] > 0
    /\ Len(order[2]) > Len(order[1])

\* C21: rendering a location record whose code holds no newline as one line
\* of the tool's layout and parsing that line yields exactly one record,
\* equal to the original, the code text kept verbatim.
C21_RoundTrip == pFn = "roundtrip" => pOut.recs = <<pIn.rec>>

NameFoo == <<"F","o","o">>
NameFoo2 == <<"F","o","o","2">>

\* the non-empty lines of the two completion outputs, written out
ExpectedSymbols(stdout) ==
    IF stdout = StdoutSymbols THEN <<NameFoo, NameFoo2>>
    ELSE IF stdout = StdoutSymbolsDup THEN <<NameFoo2, NameFoo, NameFoo2>>
    ELSE <<>>

SymbolsFound(c) ==
    /\ Answered(c)
    /\ last[c].src.command = "list_symbols_with_prefix"
    /\ last[c].tool.cause = "found"

\* C22: list_symbols_with_prefix answers with a flat list of strings, the
\* non-empty lines of the tool's completion output in the tool's order,
\* duplicates kept; an empty prefix is accepted like any other.
C22_SymbolsInToolOrder ==
    \A c \in AllConns :
        SymbolsFound(c) =>
            /\ last[c].resp.status = "success"
            /\ last[c].resp.payload = ExpectedSymbols(last[c].tool.stdout)

C22_Witness ==
    /\ SymbolsFound(1)
    /\ last[1].src.prefix = ""
    /\ last[1].tool.stdout = StdoutSymbolsDup
    /\ Len(last[1].resp.payload) = 3

\* a response to a list_symbols_with_prefix request
ListAnswer(w) == w.resp.status # "none" /\ w.src.command = "list_symbols_with_prefix"

\* w and v answer two requests with the same prefix, the tool having given
\* the same output for both
SameQuery(w, v) ==
    /\ ListAnswer(w) /\ ListAnswer(v)
    /\ w.src.prefix = v.src.prefix
    /\ w.tool = v.tool

Started == pFn = "args" /\ ~pOut.exit

\* '--interval' followed by '30' is on the command line
IntervalGiven(args) ==
    \E i \in 1..(Len(args) - 1) : args[i] = ArgInterval /\ args[i + 1] = Arg30

\* no argument of the command line starts with '--interval'
NoIntervalOption(args) == \A i \in 1..Len(args) : ~StartsWith(args[i], ArgInterval)

\* C24: the refresh timer period is 15 seconds by default, and
\* '--interval <seconds>' with a positive integer makes it that many seconds.
C24_IntervalOption ==
    Started =>
        /\ NoIntervalOption(pIn.args) => pOut.period = 15 * 1000
        /\ IntervalGiven(pIn.args) => pOut.period = 30 * 1000

\* a `global -u` has been started since the process came up
RefreshStarted == sUpdRunning > 0 \/ sUpdResult # "none"

\* C25: the scheduler starts one incremental update eagerly at startup,
\* before the first timer tick: by the time the process has read a line,
\* and as long as the timer has not fired, a refresh has been started.
C25_EagerRefresh == (sLines > 0 /\ sTicks = 0) => RefreshStarted

\* the timer fires while a `gtags -i` is running, in this step
TickWhileRefreshing == ticks' = ticks + 1 /\ updRunning > 0

\* C26: a timer tick that fires while a refresh is running is a no-op: it
\* starts no subprocess.
C26_TickWhileRefreshingIsNoOp ==
    [][TickWhileRefreshing => updRunning' = updRunning]_vars

\* a `global -u` settles in this step
RefreshSettles == sUpdRunning' < sUpdRunning

\* the timer can fire now and start a refresh
TickStartsRefresh == ENABLED (StdioTick /\ isUpdating' /\ sUpdRunning' = sUpdRunning + 1)

\* C27: the in-progress flag is false at startup, set exactly while the
\* update command runs, and cleared whenever the command settles, by
\* success or by failure; with the flag cleared the next timer tick starts
\* a new refresh, whatever the last one's result.
C27_FlagFollowsRefresh ==
    /\ [](sTicks = 0 => ~isUpdating)
    /\ [](isUpdating <=> sUpdRunning = 1)
    /\ [][RefreshSettles => ~isUpdating']_vars
    /\ []((~crashed /\ ~isUpdating) => TickStartsRefresh)

C27_Witness ==
    /\ sUpdResult = "failed"
    /\ isUpdating
    /\ sUpdRunning = 1

\* a step of request handling: a chunk is read, or a request moves on or
\* is answered
RequestStep == <<sLines, sChunks, sPending, sOrder, sLast>>' # <<sLines, sChunks, sPending, sOrder, sLast>>

\* the next step of every request that waits can be taken, and a chunk
\* can be read
RequestsCanProceed ==
    /\ (\E it \in sPending : it.wait = "access") => ENABLED StdioAccessDone
    /\ (\E it \in sPending : it.wait = "proc") => ENABLED StdioExecDone
    /\ (\E it \in sPending : it.wait = "read") => ENABLED StdioReadDone
    /\ (sChunks < MaxChunks /\ ~sEnded) => ENABLED StdioData(<<MsgCallDef>>)

\* C28: request handling neither writes nor reads the scheduler's state:
\* every step of reading a line, running a query and answering leaves the
\* flag and the running refresh as they are, and can be taken whether or
\* not a refresh is in progress.
C28_RequestsLeaveScheduler ==
    /\ [][RequestStep => UNCHANGED <<isUpdating, sUpdRunning, sTicks, sUpdResult>>]_vars
    /\ [](~crashed => RequestsCanProceed)

C28_Witness ==
    /\ isUpdating
    /\ sOrder # <<>>
    /\ sLast.src = MsgCallDef
    /\ sUpdResult = "failed"

\* a `gtags -i` is running
Refreshing == updRunning > 0

\* the next line of connection c can be taken
LineAccepted(c) ==
    (Listening /\ conn[c] = "open" /\ nlines[c] < MaxLines /\ NoMicrotask)
        => ENABLED Line(c, LineDef)

\* the timer can fire
TickAccepted == (phase = "scheduled" /\ ticks < MaxTicks /\ NoMicrotask) => ENABLED Tick

\* C29: a running refresh never blocks request handling, and a request in
\* flight never holds a refresh back: while a refresh runs lines are still
\* dispatched, a request that settles is answered there and then without
\* touching the refresh, and the timer fires whatever is in flight.
C29_RefreshDoesNotBlock ==
    /\ [](\A c \in Conns : LineAccepted(c))
    /\ [][\A c \in Conns :
             (Refreshing /\ conn[c] = "open" /\ Settles(c)) =>
                 /\ Len(order'[c]) = Len(order[c]) + 1
                 /\ updRunning' = updRunning]_vars
    /\ []TickAccepted

\* a request that arrived during the startup refresh was answered while
\* that refresh was still running
C29_Witness ==
    /\ phase = "startup"
    /\ Refreshing
    /\ last[1].src = LineDef
    /\ last[1].resp.status = "success"
    /\ order[1] = <<1>>

RecordShort ==
    [symbol |-> <<"F">>, line |-> 7, file |-> <<"a",".","c">>, code |-> <<"x","(",")">>]

RecordAligned ==
    [symbol |-> <<"G">>, line |-> 10, file |-> <<"b",".","c">>, code |-> <<"y",";">>]

RecordNoCode ==
    [symbol |-> <<"H">>, line |-> 3, file |-> <<"c",".","c">>, code |-> <<>>]

\* the lines of the four-field shape
ShapedKinds == {"def", "aligned", "nocode"}

\* the record of a line of the four-field shape, written out
RecordOfKind(kind) ==
    CASE kind = "def" -> RecordShort
      [] kind = "aligned" -> RecordAligned
      [] kind = "nocode" -> RecordNoCode

\* one record for each line of the shape, in order, nothing for the others
RECURSIVE ExpectedOfKinds(_)
ExpectedOfKinds(kinds) ==
    IF kinds = <<>> THEN <<>>
    ELSE (IF Head(kinds) \in ShapedKinds THEN <<RecordOfKind(Head(kinds))>> ELSE <<>>)
             \o ExpectedOfKinds(Tail(kinds))

\* C30: for any tool output parseLocationOutput returns, in input order, one
\* record for each line of the four-field shape and drops every other line;
\* empty output gives the empty sequence.
C30_OneRecordPerShapedLine ==
    pFn = "parse" => pOut.recs = ExpectedOfKinds(pIn.kinds)

\* the same for outputs whose lines of the shape all have a code text
C30_WhenCodePresent ==
    (pFn = "parse" /\ \A i \in 1..Len(pIn.kinds) : pIn.kinds[i] # "nocode")
        => pOut.recs = ExpectedOfKinds(pIn.kinds)

\* C31: every record parseLocationOutput returns has a line number of at
\* least 1; a line whose line-number column is not a positive integer gives
\* no record.
C31_LineAtLeastOne ==
    pFn \in {"line", "parse", "roundtrip"}
        => \A i \in 1..Len(pOut.recs) : pOut.recs[i].line >= 1

\* a line-number column that is not a run of decimal digits gives no record
C31_NonDigitsDropped ==
    (pFn = "line" /\ \E i \in 1..Len(pIn.field) : pIn.field[i] \notin Digits)
        => pOut.recs = <<>>

\* every line of the stream has its terminating newline
CompleteLines(text) == text # <<>> /\ text[Len(text)] = "\n"

\* C32: framing does not depend on how the stream is cut into reads: the
\* lines handled are the same whether a stream arrives in one read or in
\* two, on the standard input of GtagsMCPServer and on a TCP connection.
\* Stated for streams of complete lines.
C32_FramingIgnoresReads ==
    (pFn = "read" /\ CompleteLines(pIn.text))
        => /\ pOut.stdinParts = pOut.stdinWhole
           /\ pOut.rlParts = pOut.rlWhole

\* the same for a TCP connection alone
C32_ReadlineIgnoresReads ==
    pFn = "read" => pOut.rlParts = pOut.rlWhole

\* C33: a request is accepted only if its id is a non-empty string, and the
\* id of its response is null or that string.
C33_IdIsNonEmptyString ==
    pFn = "accept"
        => /\ pOut.ok => (pIn.id \in StringIds /\ pIn.id # "")
           /\ pOut.id = Null \/ (pOut.id \in StringIds /\ pOut.id = pIn.id)

\* what the id test does: a request is accepted exactly if its id is truthy,
\* and the response carries that id or null
C33_IdIsTruthy ==
    pFn = "accept"
        => /\ pOut.ok <=> pIn.id \notin {"", "<0>", "<false>", Null, Undefined}
           /\ pOut.id = IF pOut.ok THEN pIn.id ELSE Null

\* C34: a query starts the tool in the mode of its command and the tool
\* receives the request's symbol or prefix as exactly one argument,
\* unchanged, whatever string it is.
C34_ValueIsOneArgument ==
    pFn = "exec" => pOut.argv = <<FlagOf(pIn.command), pIn.value>>

\* the same for values made of letters, digits, `-` and `_` only
C34_PlainValueIsOneArgument ==
    (pFn = "exec" /\ pIn.value # <<>>
       /\ \A i \in 1..Len(pIn.value) : pIn.value[i] \notin {" ", ";"})
        => pOut.argv = <<FlagOf(pIn.command), pIn.value>>

\* a line is received on some connection, in this step
LineReceived == \E c \in Conns : nlines'[c] = nlines[c] + 1

\* the line received in this step is turned down as malformed
LineRejected == \E c \in Conns : nlines'[c] = nlines[c] + 1 /\ ~DecodeLine(lastLine'[c]).ok

\* C35: every input line, accepted as a request or rejected as malformed,
\* produces a log entry on the side channel.
C35_EveryLineLogged ==
    [][LineReceived => log' = "Received command"]_vars

\* an accepted line is logged; a rejected one leaves the side channel alone
C35_AcceptedLineLogged ==
    [][LineReceived => IF LineRejected THEN log' = log
                       ELSE log' = "Received command"]_vars

\* line i of connection c is still being handled
TcpHandling(c, i) == \E it \in inflight[c] : it.line = i

\* line i of the standard input is still being handled
StdioHandling(i) == \E it \in sPending : it.line = i

\* on an open connection every line has one response once its handler is
\* through, none before, and every response answers a line
TcpAnsweredOnce ==
    \A c \in AllConns :
        /\ conn[c] = "open" =>
              \A i \in 1..nlines[c] :
                  Count(order[c], i) = IF TcpHandling(c, i) THEN 0 ELSE 1
        /\ \A k \in DOMAIN order[c] : order[c][k] \in 1..nlines[c]

\* the same for the lines of the standard input of GtagsMCPServer
StdioAnsweredOnce ==
    /\ \A i \in 1..sLines : Count(sOrder, i) = IF StdioHandling(i) THEN 0 ELSE 1
    /\ \A k \in DOMAIN sOrder : sOrder[k] \in 1..sLines

\* C36: every received line, well-formed or not, is answered by exactly one
\* response line once its handler and the subprocess it waits for are
\* through; no line is answered twice and no response answers no line.
C36_EveryLineAnsweredOnce == TcpAnsweredOnce /\ StdioAnsweredOnce

\* the same for the TCP server alone
C36_TcpLineAnsweredOnce == TcpAnsweredOnce

\* a response is written to connection d, in this step
WrittenTo(d) == order'[d] # order[d]

\* the response written in this step answers a request that was waiting on
\* connection d, or the line d has just received
AnswersLineOf(d) ==
    \/ \E it \in inflight[d] \ inflight'[d] :
           last'[d].line = it.line /\ last'[d].src = it.src
    \/ /\ nlines'[d] = nlines[d] + 1
       /\ last'[d].line = nlines'[d]
       /\ last'[d].src = lastLine'[d]

\* C37: with several connections handled concurrently, the response to a
\* request is written only to the connection its line arrived on, whatever
\* the order in which the subprocesses end.
C37_ResponseOnOwnConnection ==
    [][\A d \in AllConns : WrittenTo(d) => AnswersLineOf(d)]_vars

\* one client has its answer while the request of the other is in flight
C37_Witness ==
    /\ conn[1] = "open" /\ conn[2] = "open"
    /\ last[2].line = 1 /\ last[2].resp.status = "success"
    /\ \E it \in inflight[1] : it.wait = "proc" /\ it.line = 1

\* a tools/call for one of the four tools, with an arguments object
KnownToolCall(m) ==
    /\ m.kind = "object"
    /\ m.method = "tools/call"
    /\ m.params = "object"
    /\ m.name \in {"get_definition", "get_references", "list_symbols_with_prefix",
                   "search_pattern"}
    /\ m.args = "object"

\* the texts of a result that reports a failed command
FailureTexts == {"Error: Command failed with code 1: ", "Error: spawn global ENOENT"}

\* the texts of a result that reports what the command printed
OutputTexts ==
    {"Found definition", "No definition found", "Found references", "No references found"}

\* C38: in GtagsMCPServer a tools/call for a known tool with an arguments
\* object is never answered with a JSON-RPC error: a failed subprocess (exit
\* code other than 0, or spawn error) gives a normal result whose text
\* starts with 'Error'.
C38_ToolFailureIsResult ==
    (sLast.line > 0 /\ KnownToolCall(sLast.src))
        => /\ sLast.msg.kind = "result"
           /\ sLast.msg.id = sLast.src.id
           /\ sLast.msg.text \in FailureTexts \cup OutputTexts

\* a tool call whose command could not be started has its result
C38_Witness ==
    /\ sLast.line > 0
    /\ KnownToolCall(sLast.src)
    /\ sLast.msg.kind = "result"
    /\ sLast.msg.text = "Error: spawn global ENOENT"

\* the timer can fire now and start a `global -u`
TickCanStartRefresh == ENABLED (StdioTick /\ sUpdRunning' > sUpdRunning)

\* C39: in GtagsMCPServer, as long as the update subprocess has not settled
\* the flag stays true and every timer tick is dropped, so no further
\* refresh is started; requests go on being served meanwhile.
C39_HungRefreshStopsRefreshes ==
    /\ [][(isUpdating /\ ~RefreshSettles)
             => (isUpdating' /\ sUpdRunning' = sUpdRunning)]_vars
    /\ []((isUpdating /\ ~crashed) => (ENABLED StdioTick /\ ~TickCanStartRefresh))
    /\ []((isUpdating /\ ~crashed) => RequestsCanProceed)

\* the first refresh has never settled, a later tick has fired, and a tool
\* call made meanwhile has its result
C39_Witness ==
    /\ isUpdating
    /\ sUpdResult = "none"
    /\ sTicks = MaxTicks
    /\ sLast.line > 0
    /\ sLast.src = MsgCallRefs
    /\ sLast.msg.kind = "result"
=============================================================================
